---- MODULE Spec2Model ----
(***************************************************************************)
(* Model of the DocuOutline page component (src/unnamed/part_000): the     *)
(* heuristic outline extraction (getLinesFromPage, getFontStatistics,      *)
(* classifyHeadings, extractOutlineFromPdf) and the Home component that    *)
(* runs it (handleFileValidation, handleDrop, handleExtract,               *)
(* handleCopyToClipboard).                                                 *)
(*                                                                         *)
(* Representation.                                                         *)
(*  - A text is a sequence of one-character strings.                       *)
(*  - A JavaScript number is a record [kind, v]: kind "number" carries the *)
(*    value v in TENTHS of a unit (180 is 18.0), kind "undefined" is a     *)
(*    missing property, kind "NaN" and "-Infinity" are results of Math.max.*)
(*    Math.round results and line.y are whole units, kept as integers.     *)
(*  - A nullable React state (File | null, ...) is Null == <<>> or <<v>>.  *)
(***************************************************************************)
EXTENDS Integers, Sequences, FiniteSets, TLC

VARIABLES
    disk,        \* the PDF files the user can pick: name -> sequence of pages
    file,        \* useState<File | null>
    outline,     \* useState<Outline | null>
    isLoading,   \* useState(false)
    error,       \* useState<string | null>
    isCopied,    \* useState(false)
    dragActive,  \* useState(false)
    run,         \* the handleExtract call in flight and its locals
    clip,        \* pending clipboard promises and isCopied timers
    lvl          \* input and result of one getHeadingLevel call

vars == <<disk, file, outline, isLoading, error, isCopied, dragActive, run, clip, lvl>>

-----------------------------------------------------------------------------
(* Bounds of the model *)

\* pages of a document
MaxPages == 3
\* text fragments of a document
MaxFrags == 3
\* clipboard writes and isCopied timers pending at once
MaxPending == 1
\* text fragments of a document of the component's specification
MaxHomeFrags == 1
\* largest rounded height of the getHeadingLevel inputs
MaxSize == 8

-----------------------------------------------------------------------------
(* JavaScript values *)

Null == <<>>
Some(v) == <<v>>

Num(n) == [kind |-> "number", v |-> n]
Undefined == [kind |-> "undefined", v |-> 0]
NaN == [kind |-> "NaN", v |-> 0]
NegInfinity == [kind |-> "-Infinity", v |-> 0]

IsNumber(h) == h.kind = "number"

\* `line.height && ...`: undefined, NaN and 0 are falsy
Truthy(h) == IsNumber(h) /\ h.v # 0

\* Math.round of a non-negative number given in tenths: half rounds up
MathRound(h) == (h.v + 5) \div 10

\* Math.abs(a - b) < 1 on numbers in tenths; false when either is NaN/undefined
AbsDiffBelowOne(a, b) ==
    /\ IsNumber(a)
    /\ IsNumber(b)
    /\ (IF a.v >= b.v THEN a.v - b.v ELSE b.v - a.v) < 10

\* Math.max(...hs): -Infinity of nothing, NaN when an argument is undefined
RECURSIVE MaxOfNumbers(_)
MaxOfNumbers(hs) ==
    IF Len(hs) = 1 THEN hs[1].v
    ELSE LET m == MaxOfNumbers(Tail(hs))
         IN  IF hs[1].v >= m THEN hs[1].v ELSE m

MathMax(hs) ==
    IF hs = <<>> THEN NegInfinity
    ELSE IF \E i \in DOMAIN hs : ~IsNumber(hs[i]) THEN NaN
    ELSE Num(MaxOfNumbers(hs))

-----------------------------------------------------------------------------
(* Strings *)

UpperChars == <<"A","B","C","D","E","F","G","H","I","J","K","L","M",
                "N","O","P","Q","R","S","T","U","V","W","X","Y","Z">>
LowerChars == <<"a","b","c","d","e","f","g","h","i","j","k","l","m",
                "n","o","p","q","r","s","t","u","v","w","x","y","z">>
Digits == {"0","1","2","3","4","5","6","7","8","9"}

IsSpace(c) == c = " "

LowerChar(c) ==
    IF \E i \in DOMAIN UpperChars : UpperChars[i] = c
    THEN LowerChars[CHOOSE i \in DOMAIN UpperChars : UpperChars[i] = c]
    ELSE c

\* String.prototype.toLowerCase
ToLowerCase(t) == [i \in DOMAIN t |-> LowerChar(t[i])]

\* /^\d+$/.test(t)
IsNumeric(t) == Len(t) >= 1 /\ \A i \in DOMAIN t : t[i] \in Digits

\* Array.prototype.join(' ')
RECURSIVE JoinSpace(_)
JoinSpace(ts) ==
    IF ts = <<>> THEN <<>>
    ELSE IF Len(ts) = 1 THEN ts[1]
    ELSE ts[1] \o <<" ">> \o JoinSpace(Tail(ts))

\* String.prototype.trim
RECURSIVE TrimStart(_)
TrimStart(t) == IF t # <<>> /\ IsSpace(t[1]) THEN TrimStart(Tail(t)) ELSE t

RECURSIVE TrimEnd(_)
TrimEnd(t) ==
    IF t # <<>> /\ IsSpace(t[Len(t)]) THEN TrimEnd(SubSeq(t, 1, Len(t) - 1)) ELSE t

Trim(t) == TrimEnd(TrimStart(t))

\* replace(/\s+/g, ' '): every run of whitespace becomes one space
RECURSIVE CollapseSpaces(_)
CollapseSpaces(t) ==
    IF Len(t) < 2 THEN t
    ELSE IF IsSpace(t[1]) /\ IsSpace(t[2]) THEN CollapseSpaces(Tail(t))
    ELSE <<t[1]>> \o CollapseSpaces(Tail(t))

-----------------------------------------------------------------------------
(* Array helpers *)

\* Array.prototype.sort is stable. A comparator that orders by a number is
\* modelled on <<key, element>> pairs sorted by ascending key: insertion sort
\* that puts a pair after every pair whose key is not greater.
RECURSIVE InsertByKey(_, _)
InsertByKey(p, s) ==
    IF s = <<>> THEN <<p>>
    ELSE IF p[1] < s[1][1] THEN <<p>> \o s
    ELSE <<s[1]>> \o InsertByKey(p, Tail(s))

RECURSIVE SortPairs(_)
SortPairs(s) ==
    IF s = <<>> THEN <<>>
    ELSE InsertByKey(s[Len(s)], SortPairs(SubSeq(s, 1, Len(s) - 1)))

\* s.sort((a, b) => key(a) - key(b)), keys[i] being the key of s[i]
SortAscBy(s, keys) ==
    LET sorted == SortPairs([i \in DOMAIN s |-> <<keys[i], s[i]>>])
    IN  [i \in DOMAIN sorted |-> sorted[i][2]]

\* s.sort((a, b) => key(b) - key(a)), keys[i] being the key of s[i]
SortDescBy(s, keys) ==
    LET sorted == SortPairs([i \in DOMAIN s |-> <<0 - keys[i], s[i]>>])
    IN  [i \in DOMAIN sorted |-> sorted[i][2]]

\* Array.prototype.indexOf: 0-based, -1 when absent
IndexOf(s, e) ==
    IF \E i \in DOMAIN s : s[i] = e
    THEN (CHOOSE i \in DOMAIN s : s[i] = e /\ \A j \in 1..(i - 1) : s[j] # e) - 1
    ELSE -1

\* the elements of a finite set of integers in ascending order
RECURSIVE AscendingSeq(_)
AscendingSeq(S) ==
    IF S = {} THEN <<>>
    ELSE LET m == CHOOSE x \in S : \A y \in S : x <= y
         IN  <<m>> \o AscendingSeq(S \ {m})

\* the sum of a sequence of integers
RECURSIVE SumSeq(_)
SumSeq(s) == IF s = <<>> THEN 0 ELSE s[1] + SumSeq(Tail(s))

-----------------------------------------------------------------------------
(* Helper functions for PDF processing *)

\* Math.round(item.transform[5]); transform[5] is item.y, in tenths
RoundedY(item) == MathRound(Num(item.y))

\* LineOfGroup with the group left in the order of the items
LineOfGroup_ItemOrder(items, y, pageNumber) ==
    LET group == SelectSeq(items, LAMBDA it : RoundedY(it) = y)
        text == JoinSpace([i \in DOMAIN group |-> group[i].str])
        firstItem == group[1]
    IN  [text |-> CollapseSpaces(Trim(text)),
         x |-> firstItem.x,
         y |-> y,
         height |-> firstItem.height,
         fontName |-> firstItem.fontName,
         page |-> pageNumber]

\* the Line that the items of one rounded y make
LineOfGroup(items, y, pageNumber) ==
    LET onLine == SelectSeq(items, LAMBDA it : RoundedY(it) = y)
        group == SortAscBy(onLine, [i \in DOMAIN onLine |-> onLine[i].x])
        text == JoinSpace([i \in DOMAIN group |-> group[i].str])
        firstItem == group[1]
    IN  [text |-> CollapseSpaces(Trim(text)),
         x |-> firstItem.x,
         y |-> y,
         height |-> firstItem.height,
         fontName |-> firstItem.fontName,
         page |-> pageNumber]

\* getLinesFromPage: items is what page.getTextContent() resolved to. The keys
\* of itemGroups are non-negative integers, which `for ... in` visits in
\* ascending order.
getLinesFromPage(items, pageNumber) ==
    IF items = <<>> THEN <<>>
    ELSE LET keys == AscendingSeq({RoundedY(items[i]) : i \in DOMAIN items})
             lines == [k \in DOMAIN keys |-> LineOfGroup(items, keys[k], pageNumber)]
         IN  SortDescBy(lines, [k \in DOMAIN lines |-> lines[k].y])

\* the fallback of `sortedFonts[0] || 12`
DefaultBodySize == 12

\* the `|| 12` of getFontStatistics: undefined (no entry) and 0 are falsy
BodySizeOf(sortedFonts) ==
    IF sortedFonts = <<>> \/ sortedFonts[1] = 0 THEN DefaultBodySize
    ELSE sortedFonts[1]

\* fontStats of getFontStatistics, as the <<size, count>> entries that
\* Object.entries lists: integer keys in ascending order
FontStatEntries(lines) ==
    LET counted == SelectSeq(lines, LAMBDA l : Truthy(l.height) /\ Len(l.text) > 2)
        sizes == AscendingSeq({MathRound(counted[i].height) : i \in DOMAIN counted})
        countOf(size) ==
            LET at == SelectSeq(counted, LAMBDA l : MathRound(l.height) = size)
            IN  SumSeq([i \in DOMAIN at |-> Len(at[i].text)])
    IN  [k \in DOMAIN sizes |-> <<sizes[k], countOf(sizes[k])>>]

getFontStatistics(lines) ==
    LET entries == FontStatEntries(lines)
        ranked == SortDescBy(entries, [k \in DOMAIN entries |-> entries[k][2]])
        sortedFonts == [k \in DOMAIN ranked |-> ranked[k][1]]
        bodySize == BodySizeOf(sortedFonts)
        larger == SelectSeq(sortedFonts, LAMBDA size : size > bodySize)
        headingSizes == SortDescBy(larger, larger)
    IN  [headingSizes |-> headingSizes, bodySize |-> bodySize]

\* getHeadingLevel without its final 'H6': every index is named H(index + 1)
getHeadingLevel_NoSaturation(height, headingSizes) ==
    LET index == IF IsNumber(height) THEN IndexOf(headingSizes, MathRound(height))
                 ELSE -1
    IN  IF index = -1 THEN Null ELSE Some("H" \o ToString(index + 1))

\* the number of levels that `index < 6` names before the final 'H6'
LevelLimit == 6

\* getHeadingLevel: Math.round(undefined) is NaN, which indexOf never finds
getHeadingLevel(height, headingSizes) ==
    LET index == IF IsNumber(height) THEN IndexOf(headingSizes, MathRound(height))
                 ELSE -1
    IN  IF index = -1 THEN Null
        ELSE IF index < LevelLimit THEN Some("H" \o ToString(index + 1))
        ELSE Some("H6")

\* the test of classifyHeadings with the title compared case-sensitively
IsHeadingLine_CaseSensitive(line, titleText, headingSizes) ==
    /\ IsNumber(line.height)
    /\ IndexOf(headingSizes, MathRound(line.height)) # -1
    /\ Len(line.text) > 3
    /\ ~IsNumeric(line.text)
    /\ line.text # titleText

\* the test under which classifyHeadings pushes a line
IsHeadingLine(line, titleText, headingSizes) ==
    LET level == getHeadingLevel(line.height, headingSizes)
        isNumeric == IsNumeric(line.text)
        isTitle == ToLowerCase(line.text) = ToLowerCase(titleText)
    IN  level # Null /\ Len(line.text) > 3 /\ ~isNumeric /\ ~isTitle

\* the outline array after the forEach of classifyHeadings
HeadingCandidates(lines, titleText, headingSizes) ==
    LET pushed == SelectSeq(lines, LAMBDA l : IsHeadingLine(l, titleText, headingSizes))
    IN  [i \in DOMAIN pushed |->
            [text |-> pushed[i].text,
             level |-> getHeadingLevel(pushed[i].height, headingSizes)[1],
             page |-> pushed[i].page]]

\* self.findIndex(h => h.text === heading.text && h.page === heading.page)
FindIndexSame(self, heading) ==
    CHOOSE i \in DOMAIN self :
        /\ self[i].text = heading.text /\ self[i].page = heading.page
        /\ \A j \in 1..(i - 1) :
              ~(self[j].text = heading.text /\ self[j].page = heading.page)

\* the duplicate filter keeping the last occurrence instead of the first
UniqueOutline_KeepLast(cands) ==
    LET keep == {i \in DOMAIN cands :
                    \A j \in DOMAIN cands :
                        (cands[j].text = cands[i].text /\ cands[j].page = cands[i].page)
                        => j <= i}
        kept == AscendingSeq(keep)
    IN  [k \in DOMAIN kept |-> cands[kept[k]]]

\* the "Remove duplicates" filter of classifyHeadings
UniqueOutline(cands) ==
    LET keep == {i \in DOMAIN cands : i = FindIndexSame(cands, cands[i])}
        kept == AscendingSeq(keep)
    IN  [k \in DOMAIN kept |-> cands[kept[k]]]

classifyHeadings(lines, titleText, headingSizes) ==
    UniqueOutline(HeadingCandidates(lines, titleText, headingSizes))

\* the last page whose lines the title is taken from (l.page <= 2)
TitlePages == 2

\* "Attempt to extract title" of extractOutlineFromPdf
ExtractTitle(allLines) ==
    LET early == SelectSeq(allLines, LAMBDA l : l.page <= TitlePages)
        firstPageLines == SortDescBy(early, [i \in DOMAIN early |-> early[i].y])
        maxFontSize == MathMax([i \in DOMAIN firstPageLines |-> firstPageLines[i].height])
        near == SelectSeq(firstPageLines,
                          LAMBDA l : AbsDiffBelowOne(l.height, maxFontSize))
        titleLines == SortDescBy(near, [i \in DOMAIN near |-> near[i].y])
    IN  JoinSpace([i \in DOMAIN titleLines |-> titleLines[i].text])

EmptyExtractionMessage ==
    "Could not extract any text from this document. It may be an image-only PDF."

NoStructureMessage ==
    "Could not extract a title or any headings. The document might be empty, an image, or corrupted."

UnexpectedMessage == "An unexpected error occurred during processing."

\* extractOutlineFromPdf without its test of allLines.length
ExtractFromLines_NoEmptyCheck(allLines) ==
    LET title == ExtractTitle(allLines)
        headingSizes == getFontStatistics(allLines).headingSizes
    IN  [thrown |-> FALSE, message |-> "",
         title |-> title,
         outline |-> classifyHeadings(allLines, title, headingSizes)]

\* extractOutlineFromPdf after its page loop: what it returns or throws
ExtractFromLines(allLines) ==
    IF Len(allLines) = 0
    THEN [thrown |-> TRUE, message |-> EmptyExtractionMessage,
          title |-> <<>>, outline |-> <<>>]
    ELSE LET title == ExtractTitle(allLines)
             headingSizes == getFontStatistics(allLines).headingSizes
         IN  [thrown |-> FALSE, message |-> "",
              title |-> title,
              outline |-> classifyHeadings(allLines, title, headingSizes)]

-----------------------------------------------------------------------------
(* Documents: what the parsing collaborator yields for a file *)

Text_body == <<"b","b","b","b","b","b","b","b","b">>
Text_Abcd == <<"A","b","c","d">>
Text_abcd == <<"a","b","c","d">>
Text_1234 == <<"1","2","3","4">>
Text_abc == <<"a","b","c">>

Item(str, x, y, height) ==
    [str |-> str, x |-> x, y |-> y, height |-> height, fontName |-> "g_d0_f1"]

\* The text items a page may hold (x, y and height in tenths): a long body
\* line, heading-sized lines with equal, case-variant, numeric and short text,
\* an item without height left of another item's line, and a very small item.
Fragments ==
    << Item(Text_body, 100, 100, Num(120)),
       Item(Text_Abcd, 100, 300, Num(180)),
       Item(Text_Abcd, 100, 200, Num(174)),
       Item(Text_abcd, 100, 250, Num(180)),
       Item(Text_1234, 100, 150, Num(180)),
       Item(Text_abc, 100, 50, Num(180)),
       Item(Text_Abcd, 50, 302, Undefined),
       Item(Text_abcd, 100, 20, Num(3)) >>

\* The text items of the documents of the component's specification
HomeFragments ==
    << Item(Text_body, 100, 100, Num(120)),
       Item(Text_Abcd, 100, 300, Num(180)) >>

\* the document of n pages that places[j] puts fragment ((j - 1) % Len(frags)) + 1
\* on page ((j - 1) \div Len(frags)) + 1 of
DocumentOf(frags, n, places) ==
    [p \in 1..n |->
        LET on == SelectSeq(places, LAMBDA j : ((j - 1) \div Len(frags)) + 1 = p)
        IN  [k \in DOMAIN on |-> frags[((on[k] - 1) % Len(frags)) + 1]]]

PdfNames == {"a.pdf", "b.pdf"}
OtherNames == {"notes.txt"}

\* the second file's content: a body line on page 1 and a heading on page 3
SecondDocument == << <<HomeFragments[1]>>, <<>>, <<HomeFragments[2]>> >>

\* disk holds, as a.pdf, a document of at most MaxPages pages with at most
\* maxFrags of the fragments, each at most once on a page
DiskOf(frags, maxFrags) ==
    \E n \in 0..MaxPages : \E k \in 0..maxFrags :
        \E places \in [1..k -> 1..(n * Len(frags))] :
            /\ \A i \in 1..(k - 1) : places[i] < places[i + 1]
            /\ disk = [name \in PdfNames |->
                          IF name = "a.pdf" THEN DocumentOf(frags, n, places)
                          ELSE SecondDocument]

\* File.type
FileType(name) == IF name \in PdfNames THEN "application/pdf" ELSE "text/plain"

\* what the collaborator may reject a document or a page with (e.message)
CollaboratorMessages == {"Invalid PDF structure.", ""}

-----------------------------------------------------------------------------
(* The Home component *)

IdleRun ==
    [pc |-> "idle", file |-> "", numPages |-> 0, i |-> 0, allLines |-> <<>>,
     result |-> [thrown |-> FALSE, message |-> "", title |-> <<>>, outline |-> <<>>]]

IdleLevel == [called |-> FALSE, height |-> Undefined, headingSizes |-> <<>>, level |-> Null]

InitHome ==
    /\ file = Null
    /\ outline = Null
    /\ isLoading = FALSE
    /\ error = Null
    /\ isCopied = FALSE
    /\ dragActive = FALSE
    /\ run = IdleRun
    /\ clip = [pending |-> 0, timers |-> 0]

Init ==
    /\ InitHome
    /\ lvl = IdleLevel
    /\ DiskOf(HomeFragments, MaxHomeFrags)

\* handleFileValidation(selectedFile) for a non-null selectedFile
handleFileValidation(name) ==
    IF FileType(name) # "application/pdf"
    THEN /\ error' = Some("Invalid file type. Please upload a PDF.")
         /\ file' = Null
         /\ UNCHANGED outline
    ELSE /\ error' = Null
         /\ outline' = Null
         /\ file' = Some(name)

\* handleDrag: dragenter and dragover set dragActive, dragleave clears it
HandleDrag(type) ==
    /\ type \in {"dragenter", "dragover", "dragleave"}
    /\ dragActive' = (type # "dragleave")
    /\ UNCHANGED <<disk, file, outline, isLoading, error, isCopied, run, clip, lvl>>

\* handleDrop with a file in e.dataTransfer.files
HandleDropFile(name) ==
    /\ dragActive' = FALSE
    /\ handleFileValidation(name)
    /\ UNCHANGED <<disk, isLoading, isCopied, run, clip, lvl>>

\* handleDrop of something that is no file
HandleDropNothing ==
    /\ dragActive' = FALSE
    /\ UNCHANGED <<disk, file, outline, isLoading, error, isCopied, run, clip, lvl>>

\* handleFileChange; the input is disabled while isLoading
HandleFileChange(name) ==
    /\ ~isLoading
    /\ handleFileValidation(name)
    /\ UNCHANGED <<disk, isLoading, isCopied, dragActive, run, clip, lvl>>

\* handleExtract up to its await. The button is disabled unless a file is
\* selected and nothing is loading, so the `if (!file)` return is never taken
\* from it; the form that also submits to handleExtract holds no submit
\* control and only the hidden file input, and is not modelled as an event.
HandleExtract ==
    /\ ~isLoading
    /\ file # Null
    /\ isLoading' = TRUE
    /\ error' = Null
    /\ outline' = Null
    /\ run' = [IdleRun EXCEPT !.pc = "getDocument", !.file = file[1]]
    /\ UNCHANGED <<disk, file, isCopied, dragActive, clip, lvl>>

\* the catch block storing e.message without the `||` fallback
Catch_NoFallback(message, lines, result) ==
    /\ error' = Some(message)
    /\ outline' = Null
    /\ isLoading' = FALSE
    /\ run' = [run EXCEPT !.pc = "failed", !.allLines = lines, !.result = result]
    /\ UNCHANGED file

\* the catch and finally blocks of handleExtract
Catch(message, lines, result) ==
    /\ error' = Some(IF message = "" THEN UnexpectedMessage ELSE message)
    /\ outline' = Null
    /\ isLoading' = FALSE
    /\ run' = [run EXCEPT !.pc = "failed", !.allLines = lines, !.result = result]
    /\ UNCHANGED file

\* handleExtract throwing when the title is empty or the outline is empty
Settle_EitherEmpty(lines) ==
    LET result == ExtractFromLines(lines)
    IN  IF result.thrown
        THEN Catch(result.message, lines, result)
        ELSE IF result.title = <<>> \/ Len(result.outline) = 0
        THEN Catch(NoStructureMessage, lines, result)
        ELSE /\ outline' = Some([title |-> result.title, outline |-> result.outline])
             /\ file' = Null
             /\ isLoading' = FALSE
             /\ run' = [run EXCEPT !.pc = "returned", !.allLines = lines,
                                   !.result = result]
             /\ UNCHANGED error

\* handleExtract throwing whenever the outline is empty, whatever the title
Settle_TitleIgnored(lines) ==
    LET result == ExtractFromLines(lines)
    IN  IF result.thrown
        THEN Catch(result.message, lines, result)
        ELSE IF Len(result.outline) = 0
        THEN Catch(NoStructureMessage, lines, result)
        ELSE /\ outline' = Some([title |-> result.title, outline |-> result.outline])
             /\ file' = Null
             /\ isLoading' = FALSE
             /\ run' = [run EXCEPT !.pc = "returned", !.allLines = lines,
                                   !.result = result]
             /\ UNCHANGED error

\* handleExtract from the end of the page loop of extractOutlineFromPdf on;
\* clearFileInput() resets the DOM input only
Settle(lines) ==
    LET result == ExtractFromLines(lines)
    IN  IF result.thrown
        THEN Catch(result.message, lines, result)
        ELSE IF result.title = <<>> /\ Len(result.outline) = 0
        THEN Catch(NoStructureMessage, lines, result)
        ELSE /\ outline' = Some([title |-> result.title, outline |-> result.outline])
             /\ file' = Null
             /\ isLoading' = FALSE
             /\ run' = [run EXCEPT !.pc = "returned", !.allLines = lines,
                                   !.result = result]
             /\ UNCHANGED error

\* file.arrayBuffer() and pdfjs.getDocument(...).promise resolve
GetDocumentResolved ==
    /\ run.pc = "getDocument"
    /\ LET numPages == Len(disk[run.file])
       IN  IF numPages = 0
           THEN Settle(<<>>)
           ELSE /\ run' = [run EXCEPT !.pc = "getPage", !.numPages = numPages, !.i = 1]
                /\ UNCHANGED <<file, outline, isLoading, error>>
    /\ UNCHANGED <<disk, isCopied, dragActive, clip, lvl>>

\* file.arrayBuffer() or pdfjs.getDocument(...).promise rejects
GetDocumentRejected(message) ==
    /\ run.pc = "getDocument"
    /\ Catch(message, run.allLines, [run.result EXCEPT !.thrown = TRUE, !.message = message])
    /\ UNCHANGED <<disk, isCopied, dragActive, clip, lvl>>

\* pdf.getPage(i) and page.getTextContent() resolve: one turn of the page loop
GetPageResolved ==
    /\ run.pc = "getPage"
    /\ LET pageLines == getLinesFromPage(disk[run.file][run.i], run.i)
           allLines == run.allLines \o pageLines
       IN  IF run.i = run.numPages
           THEN Settle(allLines)
           ELSE /\ run' = [run EXCEPT !.i = run.i + 1, !.allLines = allLines]
                /\ UNCHANGED <<file, outline, isLoading, error>>
    /\ UNCHANGED <<disk, isCopied, dragActive, clip, lvl>>

\* pdf.getPage(i) or page.getTextContent() rejects
GetPageRejected(message) ==
    /\ run.pc = "getPage"
    /\ Catch(message, run.allLines, [run.result EXCEPT !.thrown = TRUE, !.message = message])
    /\ UNCHANGED <<disk, isCopied, dragActive, clip, lvl>>

\* handleCopyToClipboard up to the clipboard promise
HandleCopyToClipboard ==
    /\ outline # Null
    /\ clip.pending + clip.timers < MaxPending
    /\ clip' = [clip EXCEPT !.pending = clip.pending + 1]
    /\ UNCHANGED <<disk, file, outline, isLoading, error, isCopied, dragActive, run, lvl>>

\* navigator.clipboard.writeText(...) resolves; the toast holds no state
CopyResolved ==
    /\ clip.pending > 0
    /\ isCopied' = TRUE
    /\ clip' = [pending |-> clip.pending - 1, timers |-> clip.timers + 1]
    /\ UNCHANGED <<disk, file, outline, isLoading, error, dragActive, run, lvl>>

\* navigator.clipboard.writeText(...) rejects
CopyRejected ==
    /\ clip.pending > 0
    /\ error' = Some("Failed to copy to clipboard.")
    /\ clip' = [clip EXCEPT !.pending = clip.pending - 1]
    /\ UNCHANGED <<disk, file, outline, isLoading, isCopied, dragActive, run, lvl>>

\* setTimeout(() => setIsCopied(false), 2500) fires
CopiedTimeout ==
    /\ clip.timers > 0
    /\ isCopied' = FALSE
    /\ clip' = [clip EXCEPT !.timers = clip.timers - 1]
    /\ UNCHANGED <<disk, file, outline, isLoading, error, dragActive, run, lvl>>

Next ==
    \/ \E type \in {"dragenter", "dragover", "dragleave"} : HandleDrag(type)
    \/ \E name \in PdfNames \cup OtherNames : HandleDropFile(name)
    \/ HandleDropNothing
    \/ \E name \in PdfNames \cup OtherNames : HandleFileChange(name)
    \/ HandleExtract
    \/ GetDocumentResolved
    \/ \E message \in CollaboratorMessages : GetDocumentRejected(message)
    \/ GetPageResolved
    \/ \E message \in CollaboratorMessages : GetPageRejected(message)
    \/ HandleCopyToClipboard
    \/ CopyResolved
    \/ CopyRejected
    \/ CopiedTimeout

Spec == Init /\ [][Next]_vars

-----------------------------------------------------------------------------
(* One extraction: handleExtract has been started on a.pdf, whose content  *)
(* ranges over the documents built from Fragments, and runs undisturbed.   *)

InitExtract ==
    /\ DiskOf(Fragments, MaxFrags)
    /\ file = Some("a.pdf")
    /\ outline = Null
    /\ isLoading = TRUE
    /\ error = Null
    /\ isCopied = FALSE
    /\ dragActive = FALSE
    /\ run = [IdleRun EXCEPT !.pc = "getDocument", !.file = "a.pdf"]
    /\ clip = [pending |-> 0, timers |-> 0]
    /\ lvl = IdleLevel

NextExtract ==
    \/ GetDocumentResolved
    \/ GetPageResolved

SpecExtract == InitExtract /\ [][NextExtract]_vars

-----------------------------------------------------------------------------
(* One call of getHeadingLevel, on a height and a list of heading sizes    *)
(* as getFontStatistics makes them: positive and strictly descending.      *)

\* the numbers of S in descending order
DescendingSeq(S) == SortDescBy(AscendingSeq(S), AscendingSeq(S))

\* heights (in tenths) on both sides of every rounding step up to MaxSize
LevelHeights ==
    {Undefined} \cup {Num(t) : t \in {u \in 0..(10 * MaxSize + 4) : u % 5 \in {0, 4}}}

InitLevel ==
    /\ InitHome
    /\ disk = [name \in PdfNames |-> SecondDocument]
    /\ \E S \in SUBSET (1..MaxSize) : \E h \in LevelHeights :
          lvl = [called |-> FALSE, height |-> h,
                 headingSizes |-> DescendingSeq(S), level |-> Null]

CallGetHeadingLevel ==
    /\ ~lvl.called
    /\ lvl' = [lvl EXCEPT !.called = TRUE,
                          !.level = getHeadingLevel(lvl.height, lvl.headingSizes)]
    /\ UNCHANGED <<disk, file, outline, isLoading, error, isCopied, dragActive, run, clip>>

NextLevel == CallGetHeadingLevel

SpecLevel == InitLevel /\ [][NextLevel]_vars

-----------------------------------------------------------------------------
(* Properties *)

\* handleExtract has finished, by return or by its catch block
Finished == run.pc \in {"returned", "failed"}

\* extractOutlineFromPdf returned a value to handleExtract
Returned == Finished /\ ~run.result.thrown

\* the heading sizes of the finished run
RunHeadingSizes == getFontStatistics(run.allLines).headingSizes

SamePlace(a, b) == a.text = b.text /\ a.page = b.page

\* page ascending and, within a page, y strictly descending
InDocumentOrder(lines) ==
    \A i, j \in DOMAIN lines :
        i < j => \/ lines[i].page < lines[j].page
                 \/ lines[i].page = lines[j].page /\ lines[i].y > lines[j].y

\* s without every element that has an earlier element of the same (text, page)
RECURSIVE FirstOccurrences(_, _)
FirstOccurrences(s, seen) ==
    IF s = <<>> THEN <<>>
    ELSE IF <<s[1].text, s[1].page>> \in seen THEN FirstOccurrences(Tail(s), seen)
    ELSE <<s[1]>> \o FirstOccurrences(Tail(s), seen \cup {<<s[1].text, s[1].page>>})

\* C1: the outline returned by extractOutlineFromPdf is the accepted heading
\* candidates, taken in document order (page ascending, y descending within a
\* page), without every candidate whose (text, page) an earlier candidate has;
\* so no two entries share (text, page) and first occurrences keep their order.
OutlineIsFirstOccurrences ==
    Returned =>
        LET cands == HeadingCandidates(run.allLines, run.result.title, RunHeadingSizes)
            out == run.result.outline
        IN  /\ InDocumentOrder(run.allLines)
            /\ out = FirstOccurrences(cands, {})
            /\ \A i, j \in DOMAIN out : i # j => ~SamePlace(out[i], out[j])

\* a run in which a candidate was removed as the duplicate of an earlier one
DuplicateRemoved ==
    /\ Returned
    /\ run.result.outline # <<>>
    /\ Len(run.result.outline)
          < Len(HeadingCandidates(run.allLines, run.result.title, RunHeadingSizes))

ExpectedLevelNames == <<"H1", "H2", "H3", "H4", "H5", "H6">>

\* the number of heading sizes above the rounded height, which is the index of
\* the rounded height in a strictly descending list that holds it
SizesAbove(height, sizes) ==
    Cardinality({k \in DOMAIN sizes : sizes[k] * 10 > height.v + 5})

HoldsRounded(height, sizes) ==
    /\ IsNumber(height)
    /\ \E k \in DOMAIN sizes :
          sizes[k] * 10 <= height.v + 5 /\ height.v + 5 < sizes[k] * 10 + 10

\* C2: the heading level depends only on the index of the line's rounded
\* height in headingSizes: index 0 gives H1, ..., 4 gives H5, every index >= 5
\* gives H6, an absent rounded height gives no heading, and no level outside
\* H1..H6 is produced.
LevelFollowsIndex ==
    lvl.called =>
        IF HoldsRounded(lvl.height, lvl.headingSizes)
        THEN LET index == SizesAbove(lvl.height, lvl.headingSizes)
             IN  lvl.level = Some(ExpectedLevelNames[IF index >= 5 THEN 6 ELSE index + 1])
        ELSE lvl.level = Null

\* a call whose height has index 6 in headingSizes and got H6
LevelSaturated ==
    /\ lvl.called
    /\ HoldsRounded(lvl.height, lvl.headingSizes)
    /\ SizesAbove(lvl.height, lvl.headingSizes) = 6
    /\ lvl.level = Some("H6")

OnlyDigits(t) == t # <<>> /\ \A i \in DOMAIN t : t[i] \in Digits

\* a and b differ at most in the case of their letters
SameIgnoringCase(a, b) ==
    /\ Len(a) = Len(b)
    /\ \A i \in DOMAIN a :
          \/ a[i] = b[i]
          \/ \E k \in DOMAIN UpperChars :
                {a[i], b[i]} = {UpperChars[k], LowerChars[k]}

Excluded(text, title) ==
    Len(text) <= 3 \/ OnlyDigits(text) \/ SameIgnoringCase(text, title)

\* C3: no outline entry has a text of length <= 3, of digits only or equal to
\* the title ignoring case, whatever its height; and every line whose rounded
\* height is in headingSizes and that meets none of the three is emitted as a
\* candidate with its own text and page.
ExclusionRules ==
    Returned =>
        LET title == run.result.title
            out == run.result.outline
            cands == HeadingCandidates(run.allLines, title, RunHeadingSizes)
        IN  /\ \A i \in DOMAIN out : ~Excluded(out[i].text, title)
            /\ \A i \in DOMAIN cands : ~Excluded(cands[i].text, title)
            /\ \A k \in DOMAIN run.allLines :
                  LET line == run.allLines[k]
                  IN  (HoldsRounded(line.height, RunHeadingSizes)
                         /\ ~Excluded(line.text, title))
                      => \E i \in DOMAIN cands :
                            cands[i].text = line.text /\ cands[i].page = line.page

\* a run with a line of heading size that equals the title only when case is
\* ignored, and is left out
CaseVariantOfTitleLeftOut ==
    /\ Returned
    /\ \E k \in DOMAIN run.allLines :
          LET line == run.allLines[k]
          IN  /\ HoldsRounded(line.height, RunHeadingSizes)
              /\ line.text # run.result.title
              /\ SameIgnoringCase(line.text, run.result.title)
              /\ \A i \in DOMAIN run.result.outline :
                    run.result.outline[i].text # line.text

\* the title as the claim C4 words it: of the lines on pages 1 and 2, those
\* whose height is less than 1 below the greatest height among them, by
\* descending y, joined with single spaces
ClaimedTitle(lines) ==
    LET early == SelectSeq(lines, LAMBDA l : l.page \in {1, 2})
        heights == {early[i].height.v : i \in {k \in DOMAIN early : IsNumber(early[k].height)}}
        chosen == SelectSeq(early,
                     LAMBDA l : /\ IsNumber(l.height)
                                /\ \A h \in heights : h - l.height.v < 10)
        ordered == SortDescBy(chosen, [i \in DOMAIN chosen |-> chosen[i].y])
    IN  JoinSpace([i \in DOMAIN ordered |-> ordered[i].text])

\* C4: the title is built only from the lines on pages 1 and 2: the texts of
\* exactly the lines whose height differs from the maximum height among these
\* lines by less than 1, by descending y, joined with single spaces; later
\* pages never contribute and without such lines the title is empty.
TitleFromFirstTwoPages ==
    Returned => run.result.title = ClaimedTitle(run.allLines)

\* every page of the document of the run is without fragments
NoFragments == \A p \in DOMAIN disk[run.file] : disk[run.file][p] = <<>>

\* C5: a document whose pages all yield zero fragments fails with the
\* empty-extraction error and exposes no outline; a document with a fragment
\* on some page never fails with the empty-extraction error.
EmptyExtractionIffNoFragments ==
    Finished =>
        /\ NoFragments <=> error = Some(EmptyExtractionMessage)
        /\ NoFragments => run.pc = "failed" /\ outline = Null

\* a finished run on a document that has pages, all of them without fragments
EmptyPagesFailed ==
    /\ Finished
    /\ Len(disk[run.file]) >= 2
    /\ NoFragments
    /\ error = Some(EmptyExtractionMessage)

\* the returned title is the empty string and the returned heading list is empty
NothingExtracted == run.result.title = <<>> /\ run.result.outline = <<>>

\* C6: handleExtract reports the failure (error set, outline not set) of an
\* extraction that completed without exception exactly when both the title is
\* the empty string and the heading list is empty; a result with a title or a
\* heading is stored as the outline.
NoStructureIffNothingExtracted ==
    Finished =>
        /\ error = Some(NoStructureMessage) <=> (Returned /\ NothingExtracted)
        /\ (Returned /\ NothingExtracted) => run.pc = "failed" /\ outline = Null
        /\ (Returned /\ ~NothingExtracted) =>
              /\ run.pc = "returned"
              /\ error = Null
              /\ outline = Some([title |-> run.result.title,
                                 outline |-> run.result.outline])

\* a finished run whose extraction returned lines but neither title nor heading
NothingExtractedFailed ==
    /\ Returned
    /\ run.allLines # <<>>
    /\ NothingExtracted
    /\ error = Some(NoStructureMessage)

\* a finished run that stored an outline with headings and an empty title
HeadingsWithoutTitleStored ==
    /\ Returned
    /\ run.result.title = <<>>
    /\ run.result.outline # <<>>
    /\ outline # Null

\* the document of the run has one line, a single word, no heading sizes, and
\* the word is the extracted title
SingleWordIsTitle ==
    /\ Returned
    /\ Len(run.allLines) = 1
    /\ run.allLines[1].text # <<>>
    /\ \A i \in DOMAIN run.allLines[1].text : ~IsSpace(run.allLines[1].text[i])
    /\ RunHeadingSizes = <<>>
    /\ run.result.title = run.allLines[1].text

\* C7 as claimed: a document whose only line is a single word, without font
\* size variation, the word being the title, fails with NoStructureFound.
SingleWordFails ==
    SingleWordIsTitle =>
        run.pc = "failed" /\ error = Some(NoStructureMessage) /\ outline = Null

\* C7 as amended: such a document does not fail; the run ends without error
\* and stores the outline whose title is the word and whose headings are empty.
SingleWordSucceeds ==
    SingleWordIsTitle =>
        /\ run.pc = "returned"
        /\ error = Null
        /\ outline = Some([title |-> run.allLines[1].text, outline |-> <<>>])

\* a finished run on a document of one single-word line that is its title
SingleWordRun == SingleWordIsTitle /\ isLoading = FALSE

\* C8: every handleExtract run that ends in failure (the collaborator throws
\* on the document or a page, the empty-extraction error, the no-structure
\* error) finishes with outline = null, error a non-empty message and
\* isLoading = false.
FailureLeavesNoOutline ==
    [][(run.pc \in {"getDocument", "getPage"} /\ run'.pc = "failed")
          => /\ outline' = Null
             /\ error' # Null
             /\ error'[1] # ""
             /\ isLoading' = FALSE]_vars

\* a run that the collaborator ended with an error without message, after an
\* earlier run had stored an outline
FailedAfterRejection ==
    /\ run.pc = "failed"
    /\ run.result.thrown
    /\ run.result.message = ""
    /\ run.file = "a.pdf"
    /\ outline = Null
    /\ error = Some(UnexpectedMessage)
    /\ isLoading = FALSE
    /\ isCopied

\* the lines extractOutlineFromPdf collects from a document
RECURSIVE LinesFrom(_, _)
LinesFrom(doc, i) ==
    IF i > Len(doc) THEN <<>>
    ELSE getLinesFromPage(doc[i], i) \o LinesFrom(doc, i + 1)

\* the document without the fragments whose height is missing
WithoutMissingHeights(doc) ==
    [p \in DOMAIN doc |-> SelectSeq(doc[p], LAMBDA item : IsNumber(item.height))]

\* how a run on these lines ends: failure, or the title and outline stored
OutcomeOf(lines) ==
    LET result == ExtractFromLines(lines)
    IN  IF result.thrown \/ (result.title = <<>> /\ result.outline = <<>>)
        THEN [failed |-> TRUE, title |-> <<>>, outline |-> <<>>]
        ELSE [failed |-> FALSE, title |-> result.title, outline |-> result.outline]

\* how the finished run ended
RunOutcome ==
    IF run.pc = "failed" THEN [failed |-> TRUE, title |-> <<>>, outline |-> <<>>]
    ELSE [failed |-> FALSE, title |-> outline[1].title, outline |-> outline[1].outline]

\* C9: a fragment whose height is missing is skipped without aborting the run:
\* the outcome (success or failure, title, outline) is that of the document
\* without the fragment.
MissingHeightSkipped ==
    Finished =>
        RunOutcome = OutcomeOf(LinesFrom(WithoutMissingHeights(disk[run.file]), 1))

\* the lines the claim C10 counts: a defined height and more than 2 characters
Qualifying(lines) == SelectSeq(lines, LAMBDA l : IsNumber(l.height) /\ Len(l.text) > 2)

RoundedHeight(line) == (line.height.v + 5) \div 10

\* the accumulated text length of the bucket of a rounded height
BucketLength(lines, size) ==
    LET at == SelectSeq(Qualifying(lines), LAMBDA l : RoundedHeight(l) = size)
    IN  SumSeq([i \in DOMAIN at |-> Len(at[i].text)])

\* C10: bodySize is the rounded height whose bucket has the greatest
\* accumulated text length over the lines with a defined height and more than
\* 2 characters, and 12 only when no line qualifies; headingSizes is the other
\* bucket heights strictly greater than bodySize, strictly descending.
BodySizeIsLargestBucket ==
    Returned =>
        LET stats == getFontStatistics(run.allLines)
            counted == Qualifying(run.allLines)
            buckets == {RoundedHeight(counted[i]) : i \in DOMAIN counted}
        IN  /\ counted = <<>> => stats.bodySize = 12
            /\ counted # <<>> =>
                  /\ stats.bodySize \in buckets
                  /\ \A b \in buckets :
                        BucketLength(run.allLines, stats.bodySize)
                           >= BucketLength(run.allLines, b)
            /\ stats.headingSizes = DescendingSeq({b \in buckets : b > stats.bodySize})

\* the lines of the finished run that lie on page p
LinesOfPage(p) == SelectSeq(run.allLines, LAMBDA l : l.page = p)

\* a vertical origin in tenths, rounded half up to whole units
RoundedOrigin(item) == (item.y + 5) \div 10

\* the positions in items of the fragments whose rounded vertical origin is y
MembersOf(items, y) == {i \in DOMAIN items : RoundedOrigin(items[i]) = y}

\* order lists every member once, by ascending horizontal origin, fragments
\* of equal horizontal origin in the order of the page
LeftToRight(items, members, order) ==
    /\ {order[k] : k \in DOMAIN order} = members
    /\ \A k \in 1..(Len(order) - 1) :
          \/ items[order[k]].x < items[order[k + 1]].x
          \/ items[order[k]].x = items[order[k + 1]].x /\ order[k] < order[k + 1]

\* line is the line that the fragments of its rounded vertical origin make
LineJoinsItsFragments(items, line) ==
    LET members == MembersOf(items, line.y)
    IN  \E order \in [1..Cardinality(members) -> members] :
            /\ LeftToRight(items, members, order)
            /\ line.text = CollapseSpaces(Trim(JoinSpace(
                               [k \in DOMAIN order |-> items[order[k]].str])))
            /\ line.x = items[order[1]].x
            /\ line.height = items[order[1]].height
            /\ line.fontName = items[order[1]].fontName

\* C11: for any page, getLinesFromPage emits exactly one line per distinct
\* rounded vertical origin among the page's fragments, in strictly decreasing
\* y; every fragment contributes to exactly the line of its rounded y, whose
\* text joins its fragments in ascending horizontal-origin order and whose x,
\* height and fontName are those of the leftmost fragment.
OneLinePerRoundedOrigin ==
    Finished =>
        \A p \in DOMAIN disk[run.file] :
            LET items == disk[run.file][p]
                lines == LinesOfPage(p)
                origins == {RoundedOrigin(items[i]) : i \in DOMAIN items}
            IN  /\ Len(lines) = Cardinality(origins)
                /\ {lines[k].y : k \in DOMAIN lines} = origins
                /\ \A j, k \in DOMAIN lines : j < k => lines[j].y > lines[k].y
                /\ \A k \in DOMAIN lines : LineJoinsItsFragments(items, lines[k])

\* a finished run with a page where a later fragment lies left of an earlier
\* one on the same rounded vertical origin, and another line below them
FragmentsMergedLeftToRight ==
    /\ Finished
    /\ \E p \in DOMAIN disk[run.file] :
          LET items == disk[run.file][p]
              lines == LinesOfPage(p)
          IN  /\ \E i, j \in DOMAIN items :
                    /\ i < j
                    /\ items[i].y # items[j].y
                    /\ RoundedOrigin(items[i]) = RoundedOrigin(items[j])
                    /\ items[j].x < items[i].x
                    /\ \E k \in DOMAIN lines :
                          /\ lines[k].x = items[j].x
                          /\ lines[k].text = items[j].str \o <<" ">> \o items[i].str
              /\ Len(lines) = 2
              /\ Len(items) = 3


\* C12: in every reachable state of the Home component error and outline are
\* never both non-null: a failure message is never displayed together with an
\* extracted outline.
ErrorExcludesOutline == ~(error # Null /\ outline # Null)

\* this step is the completion of the extraction in progress
ExtractionCompletes ==
    /\ run.pc \in {"getDocument", "getPage"}
    /\ run'.pc \in {"returned", "failed"}

\* another file than the one being extracted is selected
OtherFileSelected == file # Null /\ file[1] # run.file

\* C13: a file accepted by handleFileValidation stays the selected file until
\* the user replaces it or an extraction started on that same file succeeds:
\* when a valid file B is dropped while the extraction of an earlier file A is
\* in progress, the completion of A's extraction neither clears B from the
\* selection nor leaves A's outline displayed while B is selected.
SelectionSurvivesOtherExtraction ==
    [][(ExtractionCompletes /\ OtherFileSelected)
          => (file' = file /\ outline' = Null)]_vars

\* the lines the title was assembled from: of the lines on pages 1 and 2,
\* those whose height is within 1 of the greatest height, none when a height
\* among them is missing
SelectedTitleLines(lines) ==
    LET early == SelectSeq(lines, LAMBDA l : l.page \in {1, 2})
    IN  IF \E i \in DOMAIN early : ~IsNumber(early[i].height)
        THEN <<>>
        ELSE SelectSeq(early,
                LAMBDA l : \A i \in DOMAIN early :
                              early[i].height.v - l.height.v < 10)

\* C14: no line that was selected as part of the title appears as an entry of
\* the outline, also when the title is assembled from two or more lines.
TitleLinesNotInOutline ==
    Returned =>
        LET titleLines == SelectedTitleLines(run.allLines)
        IN  \A i \in DOMAIN titleLines : \A k \in DOMAIN run.result.outline :
                ~SamePlace(run.result.outline[k], titleLines[i])

=============================================================================
